---- MODULE Spec2Model ----
(***************************************************************************)
(* safe-tag: safeTag / unmaskTag (src/unnamed/part_003).                   *)
(*                                                                         *)
(* The probed value is one engine value: a primitive, a sentinel, an       *)
(* ordinary object, or a proxy over an ordinary object whose traps may     *)
(* throw.  The heap state is the value's own properties and the tag        *)
(* override of its prototype.  Each call of the library is a sequence of   *)
(* steps, one per engine primitive that touches the value.                 *)
(*                                                                         *)
(* Strings are sequences of one-character strings, so that the formatting  *)
(* "[object " + tag + "]" done by the engine is computed, not assumed.     *)
(***************************************************************************)
EXTENDS Integers, Sequences, FiniteSets, TLC

VARIABLES
    value,          \* the probed value: its kind and the traps that throw
    symToStringTag, \* part_003:10 whether the runtime has Symbol.toStringTag
    own,            \* own properties of the value: key -> descriptor
    proto,          \* descriptor of the tag override on the prototype
    pc,             \* position of each caller inside its call
    op,             \* the entry point each caller is running
    descriptor,     \* part_003:49 the local `descriptor` of unmaskTag
    completion,     \* pending completion of the inner try block (55-63)
    pre,            \* own properties when the call started
    log,            \* engine primitives invoked on the value by the call
    history,        \* completed calls, oldest first
    tagCache        \* part_004:32 the entry of `tagCache` for the value

vars == <<value, symToStringTag, own, proto, pc, op, descriptor, completion,
          pre, log, history, tagCache>>

(***************************************************************************)
(* Bounds                                                                  *)
(***************************************************************************)
MaxCalls == 2

Callers == {"main", "second"}

\* the single thread of control of section 5 of the design
Sequential == {"main"}

(***************************************************************************)
(* Strings                                                                 *)
(***************************************************************************)
S_Null == <<"N", "u", "l", "l">>
S_Undefined == <<"U", "n", "d", "e", "f", "i", "n", "e", "d">>
S_Object == <<"O", "b", "j", "e", "c", "t">>
S_Array == <<"A", "r", "r", "a", "y">>
S_Function == <<"F", "u", "n", "c", "t", "i", "o", "n">>
S_Date == <<"D", "a", "t", "e">>
S_Number == <<"N", "u", "m", "b", "e", "r">>
S_String == <<"S", "t", "r", "i", "n", "g">>
S_Boolean == <<"B", "o", "o", "l", "e", "a", "n">>
S_Custom == <<"C", "u", "s", "t", "o", "m">>
S_Tagged == <<"T", "a", "g", "g", "e", "d">>
S_Spaced == <<"n", "o", " ", "w">>
S_Empty == <<>>

\* ES2015 19.1.3.6 step 17: the concatenation "[object ", tag, "]"
ObjectTag(tag) == <<"[", "o", "b", "j", "e", "c", "t", " ">> \o tag \o <<"]">>

(***************************************************************************)
(* Engine values and property descriptors                                  *)
(***************************************************************************)
Undef == [t |-> "undefined"]
Str(w) == [t |-> "string", s |-> w]

NoDesc == [type |-> "none"]
DataDesc(v, w, e, c) ==
    [type |-> "data", value |-> v, writable |-> w, enumerable |-> e,
     configurable |-> c]
AccessorDesc(g, s, e, c) ==
    [type |-> "accessor", get |-> g, set |-> s, enumerable |-> e,
     configurable |-> c]

\* what a getter does when invoked
Returns(v) == [t |-> "returns", v |-> v]
Throws == [t |-> "throws"]

TAG == "Symbol.toStringTag"
OTHER_KEY == "other"
Keys == {TAG, OTHER_KEY}

\* the masking definition written by unmaskTag
MaskDesc == DataDesc(Undef, TRUE, FALSE, TRUE)

PrimitiveKinds == {"number", "string", "boolean"}
ObjectKinds == {"object", "array", "function", "date"}
Kinds == {"undefined", "null"} \cup PrimitiveKinds \cup ObjectKinds

\* the steps of a proxy that can throw (a revoked proxy throws in all)
Steps == {"gopd", "mask", "readPlain", "readMasked", "restore"}

TypeOf(v) ==
    CASE v.kind = "undefined" -> "undefined"
      [] v.kind = "function" -> "function"
      [] v.kind \in PrimitiveKinds -> v.kind
      [] OTHER -> "object"

\* ES2015 19.1.3.6 steps 4-14: builtinTag
BuiltinTag(kind) ==
    CASE kind = "array" -> S_Array
      [] kind = "function" -> S_Function
      [] kind = "date" -> S_Date
      [] kind = "number" -> S_Number
      [] kind = "string" -> S_String
      [] kind = "boolean" -> S_Boolean
      [] OTHER -> S_Object

(***************************************************************************)
(* Engine primitives bound at part_003:8-13                                *)
(***************************************************************************)
Normal(x) == [threw |-> FALSE, v |-> x]
Abrupt == [threw |-> TRUE, v |-> <<>>]

IsProxy(v) == v.fails # {}

\* [[Get]] of a property found with descriptor d
GetValue(d) ==
    CASE d.type = "data" -> Normal(d.value)
      [] d.type = "accessor" ->
            IF d.get.t = "throws" THEN Abrupt ELSE Normal(d.get.v)
      [] OTHER -> Normal(Undef)

\* a proxy's get trap is stateless: it sees whether the target is masked
ReadTrapThrows(v, o) ==
    IF o[TAG] = MaskDesc THEN "readMasked" \in v.fails
    ELSE "readPlain" \in v.fails

\* a proxy's defineProperty trap is stateless: it sees the descriptor written
DefineTrapThrows(v, desc) ==
    IF desc = MaskDesc THEN "mask" \in v.fails ELSE "restore" \in v.fails

\* Object.prototype.toString.call(v) on the heap (o, p)
NativeToString(v, o, p) ==
    IF v.kind = "undefined" THEN Normal(ObjectTag(S_Undefined))
    ELSE IF v.kind = "null" THEN Normal(ObjectTag(S_Null))
    ELSE IF ReadTrapThrows(v, o) THEN Abrupt
    ELSE LET d == IF o[TAG] # NoDesc THEN o[TAG] ELSE p
             g == GetValue(d)
         IN  IF g.threw THEN Abrupt
             ELSE IF g.v.t = "string" THEN Normal(ObjectTag(g.v.s))
             ELSE Normal(ObjectTag(BuiltinTag(v.kind)))

\* variant: looks the key up through the prototype chain
GetDescriptorThroughChain(v, o) ==
    IF "gopd" \in v.fails THEN Abrupt
    ELSE Normal(IF o[TAG] # NoDesc THEN o[TAG] ELSE proto)

\* Object.getOwnPropertyDescriptor(v, Symbol.toStringTag)
GetOwnDescriptor(v, o) ==
    IF v.kind \in {"undefined", "null"} \/ "gopd" \in v.fails THEN Abrupt
    ELSE Normal(o[TAG])

\* ValidateAndApplyPropertyDescriptor for a complete descriptor desc
\* on an extensible object whose current property is cur
DefineAllowed(cur, desc) ==
    \/ cur = NoDesc
    \/ cur.configurable
    \/ /\ ~desc.configurable
       /\ desc.enumerable = cur.enumerable
       /\ desc.type = cur.type
       /\ IF cur.type = "data"
          THEN cur.writable \/ (~desc.writable /\ desc.value = cur.value)
          ELSE desc.get = cur.get /\ desc.set = cur.set

\* Object.defineProperty(v, key, desc): the heap afterwards, or a throw
DefineProperty(v, o, key, desc) ==
    IF desc = NoDesc \/ DefineTrapThrows(v, desc)
          \/ ~DefineAllowed(o[key], desc)
    THEN Abrupt
    ELSE Normal([o EXCEPT ![key] = desc])

\* one engine primitive invoked on the value
Event(name, key, desc, ok) ==
    [prim |-> name, key |-> key, desc |-> desc, ok |-> ok]

(***************************************************************************)
(* Initial states                                                          *)
(***************************************************************************)
Flags == {<<TRUE, TRUE>>, <<FALSE, FALSE>>, <<TRUE, FALSE>>}

OwnDescs ==
    {NoDesc}
    \cup {DataDesc(x, f[1], f[2], c) :
            x \in {Str(S_Custom), Undef}, f \in Flags, c \in BOOLEAN}
    \cup {DataDesc(Str(S_Spaced), TRUE, TRUE, c) : c \in BOOLEAN}
    \cup {DataDesc(Str(S_Empty), TRUE, TRUE, TRUE)}
    \cup {AccessorDesc(g, b, b, c) :
            g \in {Returns(Str(S_Custom)), Throws},
            b \in BOOLEAN, c \in BOOLEAN}

ProtoDescs ==
    {NoDesc,
     DataDesc(Str(S_Tagged), FALSE, FALSE, TRUE),
     DataDesc(Str(S_Spaced), FALSE, FALSE, TRUE),
     AccessorDesc(Returns(Str(S_Tagged)), FALSE, FALSE, TRUE),
     AccessorDesc(Throws, FALSE, FALSE, TRUE)}

Values ==
    {[kind |-> k, fails |-> {}] : k \in Kinds}
    \cup {[kind |-> k, fails |-> f] : k \in ObjectKinds, f \in SUBSET Steps}

OtherDesc == DataDesc(Str(<<"x">>), TRUE, TRUE, TRUE)

\* part_004:44: `tagCache.get(value)` answers undefined, no entry
NoEntry == <<>>

InitOver(values) ==
    /\ value \in values
    /\ symToStringTag \in BOOLEAN
    /\ \E d \in OwnDescs :
          /\ (~symToStringTag \/ value.kind \notin ObjectKinds) => d = NoDesc
          /\ own = [k \in Keys |->
                      IF k = TAG THEN d
                      ELSE IF value.kind \in ObjectKinds THEN OtherDesc
                      ELSE NoDesc]
    /\ proto \in ProtoDescs
    /\ (~symToStringTag \/ value.kind \in {"undefined", "null"})
          => proto = NoDesc
    /\ pc = [c \in Callers |-> "idle"]
    /\ op = [c \in Callers |-> "none"]
    /\ descriptor = [c \in Callers |-> NoDesc]
    /\ completion = [c \in Callers |-> [type |-> "none"]]
    /\ pre = [c \in Callers |-> own]
    /\ log = [c \in Callers |-> <<>>]
    /\ history = <<>>
    /\ tagCache = NoEntry

Init == InitOver(Values)

(***************************************************************************)
(* safeTag, part_003:15-29                                                 *)
(***************************************************************************)
\* variant: no try/catch around the native call
SafeTagNoCatch(v, o, p) ==
    IF v.kind = "null"
    THEN [threw |-> FALSE, v |-> ObjectTag(S_Null), native |-> FALSE]
    ELSE IF v.kind = "undefined"
    THEN [threw |-> FALSE, v |-> ObjectTag(S_Undefined), native |-> FALSE]
    ELSE LET r == NativeToString(v, o, p)
         IN  [threw |-> r.threw, v |-> r.v, native |-> TRUE]

\* variant: the catch block answers with another generic tag
SafeTagCatchUnknown(v, o, p) ==
    IF v.kind = "null"
    THEN [threw |-> FALSE, v |-> ObjectTag(S_Null), native |-> FALSE]
    ELSE IF v.kind = "undefined"
    THEN [threw |-> FALSE, v |-> ObjectTag(S_Undefined), native |-> FALSE]
    ELSE LET r == NativeToString(v, o, p)
         IN  IF r.threw
             THEN [threw |-> FALSE, v |-> ObjectTag(<<"U", "n", "k", "n", "o", "w", "n">>),
                   native |-> TRUE]
             ELSE [threw |-> FALSE, v |-> r.v, native |-> TRUE]

\* variant: the two sentinel answers are exchanged
SafeTagSwapped(v, o, p) ==
    IF v.kind = "null"
    THEN [threw |-> FALSE, v |-> ObjectTag(S_Undefined), native |-> FALSE]
    ELSE IF v.kind = "undefined"
    THEN [threw |-> FALSE, v |-> ObjectTag(S_Null), native |-> FALSE]
    ELSE LET r == NativeToString(v, o, p)
         IN  IF r.threw
             THEN [threw |-> FALSE, v |-> ObjectTag(S_Object), native |-> TRUE]
             ELSE [threw |-> FALSE, v |-> r.v, native |-> TRUE]

\* variant: the catch block answers with the bare kind name
SafeTagCatchBare(v, o, p) ==
    IF v.kind = "null"
    THEN [threw |-> FALSE, v |-> ObjectTag(S_Null), native |-> FALSE]
    ELSE IF v.kind = "undefined"
    THEN [threw |-> FALSE, v |-> ObjectTag(S_Undefined), native |-> FALSE]
    ELSE LET r == NativeToString(v, o, p)
         IN  IF r.threw
             THEN [threw |-> FALSE, v |-> S_Object, native |-> TRUE]
             ELSE [threw |-> FALSE, v |-> r.v, native |-> TRUE]

\* variant: the historical policy, the tag is read as if the own override
\* were masked
SafeTagUnmasking(v, o, p) ==
    IF v.kind = "null"
    THEN [threw |-> FALSE, v |-> ObjectTag(S_Null), native |-> FALSE]
    ELSE IF v.kind = "undefined"
    THEN [threw |-> FALSE, v |-> ObjectTag(S_Undefined), native |-> FALSE]
    ELSE LET m == IF o[TAG] # NoDesc /\ o[TAG].configurable
                  THEN [o EXCEPT ![TAG] = MaskDesc] ELSE o
             r == NativeToString(v, m, p)
         IN  IF r.threw
             THEN [threw |-> FALSE, v |-> ObjectTag(S_Object), native |-> TRUE]
             ELSE [threw |-> FALSE, v |-> r.v, native |-> TRUE]

\* the completion of safeTag(v) and whether it invoked the native primitive
SafeTag(v, o, p) ==
    IF v.kind = "null"
    THEN [threw |-> FALSE, v |-> ObjectTag(S_Null), native |-> FALSE]
    ELSE IF v.kind = "undefined"
    THEN [threw |-> FALSE, v |-> ObjectTag(S_Undefined), native |-> FALSE]
    ELSE LET r == NativeToString(v, o, p)
         IN  IF r.threw
             THEN [threw |-> FALSE, v |-> ObjectTag(S_Object), native |-> TRUE]
             ELSE [threw |-> FALSE, v |-> r.v, native |-> TRUE]

(***************************************************************************)
(* Calls                                                                   *)
(***************************************************************************)
InProgress == {c \in Callers : pc[c] # "idle"}

\* the call of caller c completes with completion r
Finish(c, r, via, l, o) ==
    /\ history' = Append(history,
                         [caller |-> c, op |-> op[c], threw |-> r.threw,
                          ret |-> r.v, via |-> via, pre |-> pre[c],
                          post |-> o, log |-> l])
    /\ pc' = [pc EXCEPT ![c] = "idle"]
    /\ log' = [log EXCEPT ![c] = l]

\* a caller invokes safeTag(value) or unmaskTag(value)
Call(c, o) ==
    /\ pc[c] = "idle"
    /\ Len(history) + Cardinality(InProgress) < MaxCalls
    /\ pc' = [pc EXCEPT ![c] = o]
    /\ op' = [op EXCEPT ![c] = o]
    /\ descriptor' = [descriptor EXCEPT ![c] = NoDesc]
    /\ completion' = [completion EXCEPT ![c] = [type |-> "none"]]
    /\ pre' = [pre EXCEPT ![c] = own]
    /\ log' = [log EXCEPT ![c] = <<>>]
    /\ UNCHANGED <<tagCache, value, symToStringTag, own, proto, history>>

\* variant: safeTag masks a configurable own override before the native call
SafeTagStepMasking(c) ==
    /\ pc[c] = "safeTag"
    /\ LET can == /\ value.kind \in ObjectKinds
                  /\ own[TAG] # NoDesc
                  /\ own[TAG].configurable
           o == IF can THEN [own EXCEPT ![TAG] = MaskDesc] ELSE own
           r == SafeTag(value, o, proto)
           w == IF can
                THEN Append(log[c], Event("define", TAG, MaskDesc, TRUE))
                ELSE log[c]
           l == IF r.native
                THEN Append(w, Event("toString", TAG, NoDesc, TRUE))
                ELSE w
       IN  /\ own' = o
           /\ Finish(c, r, "safeTag", l, o)
    /\ UNCHANGED <<tagCache, value, symToStringTag, proto, op, descriptor,
                   completion, pre>>

\* part_003:15-29, entered from a caller or from `return safeTag(value)`
\* at part_003:41, 45, 52, 72
SafeTagStep(c) ==
    /\ pc[c] = "safeTag"
    /\ LET r == SafeTag(value, own, proto)
           l == IF r.native
                THEN Append(log[c], Event("toString", TAG, NoDesc, TRUE))
                ELSE log[c]
       IN  Finish(c, r, "safeTag", l, own)
    /\ UNCHANGED <<tagCache, value, symToStringTag, own, proto, op, descriptor,
                   completion, pre>>

(***************************************************************************)
(* unmaskTag, part_003:39-74                                               *)
(***************************************************************************)
\* variant: only an absent descriptor falls back
FallsBackIfAbsent(d) == d = NoDesc

\* variant: only a present, non-configurable descriptor falls back
FallsBackIfLocked(d) == d # NoDesc /\ ~d.configurable

\* variant: an accessor override is never masked
FallsBackOnAccessor(d) ==
    d = NoDesc \/ ~d.configurable \/ d.type = "accessor"

\* part_003:51: `!descriptor || !descriptor.configurable`
FallsBack(d) == d = NoDesc \/ ~d.configurable

\* variant: the guard of line 40 is missing
UnmaskStartNoGuard(c) ==
    /\ pc[c] = "unmaskTag"
    /\ IF ~symToStringTag
       THEN /\ pc' = [pc EXCEPT ![c] = "safeTag"]
            /\ UNCHANGED <<descriptor, log>>
       ELSE LET r == GetOwnDescriptor(value, own)
            IN  /\ log' = [log EXCEPT ![c] =
                             Append(@, Event("gopd", TAG, NoDesc, ~r.threw))]
                /\ IF r.threw
                   THEN /\ pc' = [pc EXCEPT ![c] = "safeTag"]
                        /\ UNCHANGED descriptor
                   ELSE /\ descriptor' = [descriptor EXCEPT ![c] = r.v]
                        /\ pc' = [pc EXCEPT ![c] =
                                    IF FallsBack(r.v)
                                    THEN "safeTag" ELSE "mask"]
    /\ UNCHANGED <<tagCache, value, symToStringTag, own, proto, op, completion, pre,
                   history>>

\* variant: no outer try/catch, a throwing descriptor lookup escapes
UnmaskStartNoCatch(c) ==
    /\ pc[c] = "unmaskTag"
    /\ IF value.kind = "null" \/ TypeOf(value) \notin {"object", "function"}
       THEN /\ pc' = [pc EXCEPT ![c] = "safeTag"]
            /\ UNCHANGED <<descriptor, log, history>>
       ELSE IF ~symToStringTag
       THEN /\ pc' = [pc EXCEPT ![c] = "safeTag"]
            /\ UNCHANGED <<descriptor, log, history>>
       ELSE LET r == GetOwnDescriptor(value, own)
                l == Append(log[c], Event("gopd", TAG, NoDesc, ~r.threw))
            IN  IF r.threw
                THEN /\ Finish(c, Abrupt, "throw", l, own)
                     /\ UNCHANGED descriptor
                ELSE /\ log' = [log EXCEPT ![c] = l]
                     /\ descriptor' = [descriptor EXCEPT ![c] = r.v]
                     /\ pc' = [pc EXCEPT ![c] =
                                 IF FallsBack(r.v) THEN "safeTag" ELSE "mask"]
                     /\ UNCHANGED history
    /\ UNCHANGED <<tagCache, value, symToStringTag, own, proto, op, completion, pre>>

\* variant: the outer catch answers "[object Object]" without safeTag
UnmaskStartCatchGeneric(c) ==
    /\ pc[c] = "unmaskTag"
    /\ IF value.kind = "null" \/ TypeOf(value) \notin {"object", "function"}
       THEN /\ pc' = [pc EXCEPT ![c] = "safeTag"]
            /\ UNCHANGED <<descriptor, log, history>>
       ELSE IF ~symToStringTag
       THEN /\ pc' = [pc EXCEPT ![c] = "safeTag"]
            /\ UNCHANGED <<descriptor, log, history>>
       ELSE LET r == GetOwnDescriptor(value, own)
                l == Append(log[c], Event("gopd", TAG, NoDesc, ~r.threw))
            IN  IF r.threw
                THEN /\ Finish(c, Normal(ObjectTag(S_Object)), "catch", l, own)
                     /\ UNCHANGED descriptor
                ELSE /\ log' = [log EXCEPT ![c] = l]
                     /\ descriptor' = [descriptor EXCEPT ![c] = r.v]
                     /\ pc' = [pc EXCEPT ![c] =
                                 IF FallsBack(r.v) THEN "safeTag" ELSE "mask"]
                     /\ UNCHANGED history
    /\ UNCHANGED <<tagCache, value, symToStringTag, own, proto, op, completion, pre>>

\* part_003:40-53: the guards, the descriptor snapshot and its checks
UnmaskStart(c) ==
    /\ pc[c] = "unmaskTag"
    /\ IF value.kind = "null" \/ TypeOf(value) \notin {"object", "function"}
       THEN /\ pc' = [pc EXCEPT ![c] = "safeTag"]
            /\ UNCHANGED <<descriptor, log>>
       ELSE IF ~symToStringTag
       THEN /\ pc' = [pc EXCEPT ![c] = "safeTag"]
            /\ UNCHANGED <<descriptor, log>>
       ELSE LET r == GetOwnDescriptor(value, own)
            IN  /\ log' = [log EXCEPT ![c] =
                             Append(@, Event("gopd", TAG, NoDesc, ~r.threw))]
                /\ IF r.threw
                   THEN /\ pc' = [pc EXCEPT ![c] = "safeTag"]
                        /\ UNCHANGED descriptor
                   ELSE /\ descriptor' = [descriptor EXCEPT ![c] = r.v]
                        /\ pc' = [pc EXCEPT ![c] =
                                    IF FallsBack(r.v)
                                    THEN "safeTag" ELSE "mask"]
    /\ UNCHANGED <<tagCache, value, symToStringTag, own, proto, op, completion, pre,
                   history>>

\* variant: the mask is written under another key of the value
MaskOtherKey(c) ==
    /\ pc[c] = "mask"
    /\ LET r == DefineProperty(value, own, OTHER_KEY, MaskDesc)
       IN  /\ log' = [log EXCEPT ![c] =
                        Append(@, Event("define", OTHER_KEY, MaskDesc, ~r.threw))]
           /\ IF r.threw
              THEN /\ completion' = [completion EXCEPT ![c] = [type |-> "throw"]]
                   /\ pc' = [pc EXCEPT ![c] = "restore"]
                   /\ UNCHANGED own
              ELSE /\ own' = r.v
                   /\ pc' = [pc EXCEPT ![c] = "read"]
                   /\ UNCHANGED completion
    /\ UNCHANGED <<tagCache, value, symToStringTag, proto, op, descriptor, pre, history>>

\* variant: the mask write sits outside the try/finally, its throw goes to
\* the catch directly
MaskNoFinally(c) ==
    /\ pc[c] = "mask"
    /\ LET r == DefineProperty(value, own, TAG, MaskDesc)
       IN  /\ log' = [log EXCEPT ![c] =
                        Append(@, Event("define", TAG, MaskDesc, ~r.threw))]
           /\ IF r.threw
              THEN /\ completion' = [completion EXCEPT ![c] = [type |-> "throw"]]
                   /\ pc' = [pc EXCEPT ![c] = "safeTag"]
                   /\ UNCHANGED own
              ELSE /\ own' = r.v
                   /\ pc' = [pc EXCEPT ![c] = "read"]
                   /\ UNCHANGED completion
    /\ UNCHANGED <<tagCache, value, symToStringTag, proto, op, descriptor, pre, history>>

\* part_003:56-61: the mask write; a throw leaves the try block at 55
Mask(c) ==
    /\ pc[c] = "mask"
    /\ LET r == DefineProperty(value, own, TAG, MaskDesc)
       IN  /\ log' = [log EXCEPT ![c] =
                        Append(@, Event("define", TAG, MaskDesc, ~r.threw))]
           /\ IF r.threw
              THEN /\ completion' = [completion EXCEPT ![c] = [type |-> "throw"]]
                   /\ pc' = [pc EXCEPT ![c] = "restore"]
                   /\ UNCHANGED own
              ELSE /\ own' = r.v
                   /\ pc' = [pc EXCEPT ![c] = "read"]
                   /\ UNCHANGED completion
    /\ UNCHANGED <<tagCache, value, symToStringTag, proto, op, descriptor, pre, history>>

\* variant: no finally block, a read that throws goes to the catch directly
ReadNoFinally(c) ==
    /\ pc[c] = "read"
    /\ LET r == NativeToString(value, own, proto)
       IN  /\ log' = [log EXCEPT ![c] =
                        Append(@, Event("toString", TAG, NoDesc, ~r.threw))]
           /\ completion' = [completion EXCEPT ![c] =
                               IF r.threw THEN [type |-> "throw"]
                               ELSE [type |-> "return", v |-> r.v]]
           /\ pc' = [pc EXCEPT ![c] = IF r.threw THEN "safeTag" ELSE "restore"]
    /\ UNCHANGED <<tagCache, value, symToStringTag, own, proto, op, descriptor, pre,
                   history>>

\* part_003:63: the native read under the mask
Read(c) ==
    /\ pc[c] = "read"
    /\ LET r == NativeToString(value, own, proto)
       IN  /\ log' = [log EXCEPT ![c] =
                        Append(@, Event("toString", TAG, NoDesc, ~r.threw))]
           /\ completion' = [completion EXCEPT ![c] =
                               IF r.threw THEN [type |-> "throw"]
                               ELSE [type |-> "return", v |-> r.v]]
    /\ pc' = [pc EXCEPT ![c] = "restore"]
    /\ UNCHANGED <<tagCache, value, symToStringTag, own, proto, op, descriptor, pre,
                   history>>

\* variant: restores only the value, under the flags of the mask
RestoreByValue(c) ==
    DataDesc(IF descriptor[c].type = "data" THEN descriptor[c].value ELSE Undef,
             TRUE, FALSE, TRUE)

\* variant: writes the snapshot back as a non-configurable property
RestoreLocked(c) == [descriptor[c] EXCEPT !.configurable = FALSE]

\* variant: writes the masking definition again instead of the snapshot
RestoreMask(c) == MaskDesc

\* part_003:66: the descriptor written back is the snapshot of line 49
RestoreDescriptor(c) == descriptor[c]

\* variant: a failed restore is followed by the removal of the mask
RestoreThenDelete(c) ==
    /\ pc[c] = "restore"
    /\ LET d == RestoreDescriptor(c)
           r == DefineProperty(value, own, TAG, d)
           l == Append(log[c], Event("define", TAG, d, ~r.threw))
           o == IF r.threw THEN [own EXCEPT ![TAG] = NoDesc] ELSE r.v
       IN  /\ own' = o
           /\ IF completion[c].type = "return"
              THEN Finish(c, Normal(completion[c].v), "masked", l, o)
              ELSE /\ pc' = [pc EXCEPT ![c] = "safeTag"]
                   /\ log' = [log EXCEPT ![c] = l]
                   /\ UNCHANGED history
    /\ UNCHANGED <<tagCache, value, symToStringTag, proto, op, descriptor, completion,
                   pre>>

\* part_003:64-72: the finally block, then the pending completion of the
\* try block: the return of line 63, or the throw caught at line 71
Restore(c) ==
    /\ pc[c] = "restore"
    /\ LET d == RestoreDescriptor(c)
           r == DefineProperty(value, own, TAG, d)
           l == Append(log[c], Event("define", TAG, d, ~r.threw))
           o == IF r.threw THEN own ELSE r.v
       IN  /\ own' = o
           /\ IF completion[c].type = "return"
              THEN Finish(c, Normal(completion[c].v), "masked", l, o)
              ELSE /\ pc' = [pc EXCEPT ![c] = "safeTag"]
                   /\ log' = [log EXCEPT ![c] = l]
                   /\ UNCHANGED history
    /\ UNCHANGED <<tagCache, value, symToStringTag, proto, op, descriptor, completion,
                   pre>>

\* one step of caller c
Step(c) ==
    \/ \E o \in {"safeTag", "unmaskTag"} : Call(c, o)
    \/ SafeTagStep(c)
    \/ UnmaskStart(c)
    \/ Mask(c)
    \/ Read(c)
    \/ Restore(c)

Next == \E c \in Sequential : Step(c)

Spec == Init /\ [][Next]_vars

\* two logical threads of control on the same value, interleaved at the
\* granularity of the engine primitives
NextRace == \E c \in Callers : Step(c)

\* the race needs no hostile value: ordinary values only
InitRace == Init /\ ~IsProxy(value)

SpecRace == InitRace /\ [][NextRace]_vars

(***************************************************************************)
(* Vocabulary of the properties                                            *)
(***************************************************************************)
Calls == {history[i] : i \in DOMAIN history}

IsString(s) == s \in Seq(STRING)

Defines(l) == SelectSeq(l, LAMBDA e : e.prim = "define")
Reads(l) == SelectSeq(l, LAMBDA e : e.prim = "toString")
Lookups(l) == SelectSeq(l, LAMBDA e : e.prim = "gopd")

\* in unmaskTag the first define of a call is the mask, the second the restore
MaskWritten(l) == Len(Defines(l)) >= 1 /\ Defines(l)[1].ok
MaskThrew(l) == Len(Defines(l)) >= 1 /\ ~Defines(l)[1].ok
RestoreThrew(l) == Len(Defines(l)) >= 2 /\ ~Defines(l)[2].ok
ReadThrew(l) == \E i \in DOMAIN l : l[i].prim = "toString" /\ ~l[i].ok
NoStepFailed(l) == \A i \in DOMAIN l : l[i].ok

\* the raw primitive on the heap a call started from
Raw(h) == NativeToString(value, h.pre, proto)

\* C1: every call of safeTag or unmaskTag returns a string and no exception
\* escapes, whatever steps fail; a call in progress can always take a step.
Totality ==
    /\ \A h \in Calls : ~h.threw /\ IsString(h.ret) /\ Len(h.ret) > 0
    /\ \A c \in Callers : pc[c] # "idle" => ENABLED Next

\* a call that masked, whose read under the mask threw and whose restore threw
TotalityWitness ==
    \E h \in Calls :
        /\ h.op = "unmaskTag" /\ ~h.threw
        /\ MaskWritten(h.log) /\ ReadThrew(h.log) /\ RestoreThrew(h.log)

\* C2: when unmaskTag has masked the override and the restore write throws,
\* the returned tag is not the one read under the mask: it is computed by the
\* safeTag fallback; so every call either leaves the override as it found it
\* or answers through the fallback.
RestoreFailureFallsBack ==
    /\ \A h \in Calls :
          (h.op = "unmaskTag" /\ MaskWritten(h.log) /\ RestoreThrew(h.log))
             => /\ h.via = "safeTag"
                /\ h.ret = SafeTag(value, h.post, proto).v
    /\ \A h \in Calls :
          h.op = "unmaskTag" => (h.post[TAG] = h.pre[TAG] \/ h.via = "safeTag")

\* C3: a call of unmaskTag whose restore write does not throw leaves every
\* own property descriptor, and the set of own keys, as it found them.
NoPersistentMutation ==
    \A h \in Calls :
        (h.op = "unmaskTag" /\ ~RestoreThrew(h.log)) => h.post = h.pre

\* a restored accessor override after a read that threw under the mask
NoPersistentMutationWitness ==
    \E h \in Calls :
        /\ h.op = "unmaskTag"
        /\ MaskWritten(h.log) /\ ReadThrew(h.log) /\ ~RestoreThrew(h.log)
        /\ Len(Defines(h.log)) = 2
        /\ h.pre[TAG].type = "accessor"
        /\ h.pre[TAG].enumerable
        /\ h.post = h.pre

\* C4: safeTag never writes: no defineProperty on the value, and the own
\* properties after the call are those before it.
SafeTagNeverMutates ==
    \A h \in Calls :
        h.op = "safeTag" => (Defines(h.log) = <<>> /\ h.post = h.pre)

\* safeTag on a proxy whose native read throws, carrying a configurable
\* override
SafeTagNeverMutatesWitness ==
    \E h \in Calls :
        /\ h.op = "safeTag"
        /\ h.pre[TAG] # NoDesc /\ h.pre[TAG].configurable
        /\ Raw(h).threw
        /\ h.post = h.pre

\* an ordinary object-like value whose own override is a configurable data
\* property holding the word w
HasOwnWord(h, w) ==
    /\ value.kind \in ObjectKinds
    /\ ~IsProxy(value)
    /\ h.pre[TAG].type = "data"
    /\ h.pre[TAG].configurable
    /\ h.pre[TAG].value = Str(w)

\* C5: for an object-like value with an own configurable override W,
\* safeTag returns "[object W]".
OwnOverrideRespect ==
    \A h \in Calls :
        (h.op = "safeTag" /\ HasOwnWord(h, S_Custom))
           => h.ret = ObjectTag(S_Custom)

OwnOverrideRespectWitness ==
    \E h \in Calls :
        /\ h.op = "safeTag" /\ HasOwnWord(h, S_Custom)
        /\ value.kind = "function"
        /\ proto # NoDesc
        /\ h.ret = ObjectTag(S_Custom)

\* C6: for an object-like value with an own configurable override W where no
\* step fails, unmaskTag returns the intrinsic tag of the value's kind and the
\* override reads W again afterwards.
OwnOverrideReveal ==
    \A h \in Calls :
        ( /\ h.op = "unmaskTag"
          /\ value.kind \in ObjectKinds
          /\ h.pre[TAG] # NoDesc
          /\ h.pre[TAG].configurable
          /\ GetValue(h.pre[TAG]) = Normal(Str(S_Custom))
          /\ NoStepFailed(h.log) )
           => /\ h.ret = ObjectTag(BuiltinTag(value.kind))
              /\ GetValue(h.post[TAG]) = Normal(Str(S_Custom))

OwnOverrideRevealWitness ==
    \E h \in Calls :
        /\ h.op = "unmaskTag" /\ HasOwnWord(h, S_Custom)
        /\ value.kind = "array"
        /\ MaskWritten(h.log)
        /\ h.ret = ObjectTag(S_Array)
        /\ h.post[TAG].value = Str(S_Custom)

\* the value has no own override and its prototype's override reads as w
InheritsWord(h, w) ==
    /\ h.pre[TAG] = NoDesc
    /\ GetValue(proto) = Normal(Str(w))
    /\ "readPlain" \notin value.fails

\* C7: when the override exists only on the prototype, safeTag and unmaskTag
\* both return the overridden tag and unmaskTag performs no defineProperty.
InheritedOverrideRespect ==
    /\ \A h \in Calls :
          InheritsWord(h, S_Tagged) => h.ret = ObjectTag(S_Tagged)
    /\ \A h \in Calls :
          (h.pre[TAG] = NoDesc /\ proto # NoDesc)
             => (Defines(h.log) = <<>> /\ h.post = h.pre)

InheritedOverrideRespectWitness ==
    \E g, h \in Calls :
        /\ g.op = "safeTag" /\ h.op = "unmaskTag"
        /\ InheritsWord(h, S_Tagged)
        /\ value.kind = "object"
        /\ proto.type = "accessor"
        /\ Len(Lookups(h.log)) = 1
        /\ g.ret = ObjectTag(S_Tagged) /\ h.ret = g.ret

\* C8: for a value other than null and undefined, safeTag returns what the
\* raw primitive returns when it does not throw, and "[object Object]" exactly
\* when the raw primitive throws or itself yields "[object Object]".
SafeTagAgreesWithRaw ==
    \A h \in Calls :
        (h.op = "safeTag" /\ value.kind \notin {"undefined", "null"})
           => /\ ~Raw(h).threw => h.ret = Raw(h).v
              /\ h.ret = ObjectTag(S_Object)
                    <=> (Raw(h).threw \/ Raw(h).v = ObjectTag(S_Object))

\* safeTag on a value whose own getter throws in the raw primitive
SafeTagAgreesWithRawWitness ==
    \E h \in Calls :
        /\ h.op = "safeTag"
        /\ value.kind = "array"
        /\ ~IsProxy(value)
        /\ Raw(h).threw
        /\ h.ret = ObjectTag(S_Object)

\* the value carries no own and no inherited override
Plain(h) == h.pre[TAG] = NoDesc /\ proto = NoDesc

\* C9: for a value with neither an own nor an inherited override, safeTag and
\* unmaskTag both return the raw result of the native primitive.
NativeAgreementOnPlain ==
    /\ \A h \in Calls : (Plain(h) /\ ~Raw(h).threw) => h.ret = Raw(h).v
    /\ \A g, h \in Calls :
          (Plain(g) /\ Plain(h) /\ ~Raw(g).threw) => g.ret = h.ret

NativeAgreementOnPlainWitness ==
    \E g, h \in Calls :
        /\ g.op = "safeTag" /\ h.op = "unmaskTag"
        /\ Plain(g) /\ Plain(h)
        /\ value.kind = "date"
        /\ symToStringTag
        /\ g.ret = ObjectTag(S_Date) /\ h.ret = ObjectTag(S_Date)

\* C10: on undefined and on null both entry points return the sentinel tag
\* without invoking the native primitive or reading a descriptor.
SentinelPrecedence ==
    \A h \in Calls :
        /\ value.kind = "undefined"
              => (h.ret = ObjectTag(S_Undefined) /\ h.log = <<>>)
        /\ value.kind = "null"
              => (h.ret = ObjectTag(S_Null) /\ h.log = <<>>)

SentinelPrecedenceWitness ==
    \E g, h \in Calls :
        /\ g.op = "safeTag" /\ h.op = "unmaskTag"
        /\ value.kind = "null"
        /\ symToStringTag
        /\ h.via = "safeTag"
        /\ h.ret = ObjectTag(S_Null) /\ g.ret = h.ret

\* a proxy on which every operation throws
Revoked == value.fails = Steps

\* C11: on a revoked proxy safeTag and unmaskTag both return
\* "[object Object]" and neither throws.
RevokedResilience ==
    \A h \in Calls : Revoked => (~h.threw /\ h.ret = ObjectTag(S_Object))

RevokedResilienceWitness ==
    \E g, h \in Calls :
        /\ Revoked
        /\ g.op = "safeTag" /\ h.op = "unmaskTag"
        /\ h.pre[TAG] # NoDesc /\ h.pre[TAG].configurable
        /\ Len(Lookups(h.log)) = 1 /\ ~Lookups(h.log)[1].ok
        /\ g.ret = ObjectTag(S_Object) /\ h.ret = ObjectTag(S_Object)

\* the own override is a non-configurable accessor whose getter throws
HasLockedThrowingGetter(h) ==
    /\ h.pre[TAG].type = "accessor"
    /\ ~h.pre[TAG].configurable
    /\ h.pre[TAG].get = Throws

\* C12: with a non-configurable throwing getter as own override, both entry
\* points return "[object Object]" without throwing and unmaskTag attempts no
\* defineProperty.
ThrowingGetterResilience ==
    \A h \in Calls :
        HasLockedThrowingGetter(h)
           => /\ ~h.threw
              /\ h.ret = ObjectTag(S_Object)
              /\ Defines(h.log) = <<>>

ThrowingGetterResilienceWitness ==
    \E g, h \in Calls :
        /\ HasLockedThrowingGetter(h)
        /\ ~IsProxy(value)
        /\ g.op = "safeTag" /\ h.op = "unmaskTag"
        /\ Len(Lookups(h.log)) = 1 /\ Lookups(h.log)[1].ok
        /\ g.ret = ObjectTag(S_Object) /\ h.ret = ObjectTag(S_Object)

\* the descriptor lookup of the call threw
LookupThrew(l) == Len(Lookups(l)) >= 1 /\ ~Lookups(l)[1].ok

\* C13: when the own-descriptor lookup throws, unmaskTag performs no
\* defineProperty and returns exactly safeTag(value): the visible tag when the
\* native read succeeds, "[object Object]" otherwise.
LookupFailureFallsBack ==
    \A h \in Calls :
        (h.op = "unmaskTag" /\ LookupThrew(h.log))
           => /\ Defines(h.log) = <<>>
              /\ h.post = h.pre
              /\ ~h.threw
              /\ h.via = "safeTag"
              /\ h.ret = IF Raw(h).threw THEN ObjectTag(S_Object)
                         ELSE Raw(h).v

\* the proxy over an object tagged with a word whose lookup trap throws
LookupFailureFallsBackWitness ==
    \E h \in Calls :
        /\ h.op = "unmaskTag" /\ LookupThrew(h.log)
        /\ value.fails = {"gopd"}
        /\ h.pre[TAG] = DataDesc(Str(S_Custom), TRUE, TRUE, TRUE)
        /\ h.ret = ObjectTag(S_Custom)

\* C14: unmaskTag invokes defineProperty only on an object-like or
\* function-like value, in a runtime that has the tag-override key, after a
\* lookup that returned a configurable descriptor; with an absent or a
\* non-configurable descriptor it returns safeTag(value) with no write.
MutationPrecondition ==
    \A h \in Calls :
        h.op = "unmaskTag"
           => /\ Defines(h.log) # <<>>
                    => /\ TypeOf(value) \in {"object", "function"}
                       /\ value.kind # "null"
                       /\ symToStringTag
                       /\ Len(Lookups(h.log)) = 1 /\ Lookups(h.log)[1].ok
                       /\ h.pre[TAG] # NoDesc
                       /\ h.pre[TAG].configurable
              /\ (h.pre[TAG] = NoDesc \/ ~h.pre[TAG].configurable)
                    => /\ Defines(h.log) = <<>>
                       /\ h.post = h.pre
                       /\ h.via = "safeTag"
                       /\ h.ret = SafeTag(value, h.pre, proto).v

\* a non-configurable word override: the lookup succeeds and nothing is written
MutationPreconditionWitness ==
    \E h \in Calls :
        /\ h.op = "unmaskTag"
        /\ h.pre[TAG] = DataDesc(Str(S_Custom), FALSE, FALSE, FALSE)
        /\ ~IsProxy(value)
        /\ Len(Lookups(h.log)) = 1 /\ Lookups(h.log)[1].ok
        /\ Defines(h.log) = <<>>
        /\ h.ret = ObjectTag(S_Custom)

\* C15: when the mask write throws, unmaskTag returns safeTag(value), does
\* not throw, and the own override after the call is the one before it.
MaskFailureFallsBack ==
    \A h \in Calls :
        (h.op = "unmaskTag" /\ MaskThrew(h.log))
           => /\ ~h.threw
              /\ h.via = "safeTag"
              /\ h.ret = SafeTag(value, h.pre, proto).v
              /\ h.post[TAG] = h.pre[TAG]

\* the proxy whose defineProperty trap refuses the mask only
MaskFailureFallsBackWitness ==
    \E h \in Calls :
        /\ h.op = "unmaskTag" /\ MaskThrew(h.log)
        /\ value.fails = {"mask"}
        /\ h.pre[TAG] = DataDesc(Str(S_Custom), FALSE, FALSE, TRUE)
        /\ h.ret = ObjectTag(S_Custom)
        /\ h.post = h.pre

\* the characters matched by \w
WordChars ==
    {"A", "B", "C", "D", "E", "F", "G", "H", "I", "J", "K", "L", "M",
     "N", "O", "P", "Q", "R", "S", "T", "U", "V", "W", "X", "Y", "Z",
     "a", "b", "c", "d", "e", "f", "g", "h", "i", "j", "k", "l", "m",
     "n", "o", "p", "q", "r", "s", "t", "u", "v", "w", "x", "y", "z",
     "0", "1", "2", "3", "4", "5", "6", "7", "8", "9", "_"}

IsWord(x) == Len(x) > 0 /\ \A i \in DOMAIN x : x[i] \in WordChars

\* s matches ^\[object \w+\]$
MatchesTagPattern(s) ==
    /\ Len(s) > Len(ObjectTag(<<>>))
    /\ s = ObjectTag(SubSeq(s, Len(ObjectTag(<<>>)), Len(s) - 1))
    /\ IsWord(SubSeq(s, Len(ObjectTag(<<>>)), Len(s) - 1))

\* the strings the own or the inherited override of the value reads as
OverrideStrings(h) ==
    {GetValue(d).v.s :
        d \in {e \in {h.pre[TAG], proto} :
                  ~GetValue(e).threw /\ GetValue(e).v.t = "string"}}

\* the kind names the engine assigns
EngineNames == {S_Null, S_Undefined} \cup {BuiltinTag(k) : k \in Kinds}

\* C16 as stated: every string returned by safeTag or unmaskTag matches
\* ^\[object \w+\]$, whatever string the override holds.
OutputFormat ==
    \A h \in Calls : ~h.threw /\ MatchesTagPattern(h.ret)

\* C16 as amended: every returned string is "[object X]" with X an engine
\* kind name or the override string verbatim, and it matches
\* ^\[object \w+\]$ whenever every override string of the value is a
\* non-empty run of word characters.
OutputFormatVerbatim ==
    \A h \in Calls :
        /\ ~h.threw
        /\ \E x \in EngineNames \cup OverrideStrings(h) : h.ret = ObjectTag(x)
        /\ (\A x \in OverrideStrings(h) : IsWord(x))
              => MatchesTagPattern(h.ret)

\* an override holding a string with a space is returned verbatim by safeTag
\* and replaced by the kind name by unmaskTag
OutputFormatVerbatimWitness ==
    \E g, h \in Calls :
        /\ g.op = "safeTag" /\ h.op = "unmaskTag"
        /\ g.pre[TAG] = DataDesc(Str(S_Spaced), TRUE, TRUE, TRUE)
        /\ h.pre = g.pre
        /\ g.ret = ObjectTag(S_Spaced) /\ ~MatchesTagPattern(g.ret)
        /\ h.ret = ObjectTag(BuiltinTag(value.kind))
        /\ MatchesTagPattern(h.ret)

\* C17: two calls of the same entry point in succession on the value, with
\* nobody else changing it in between, return the same string, also when the
\* first call hit a failing step.
Idempotence ==
    \A i \in DOMAIN history :
        (i + 1 \in DOMAIN history /\ history[i].op = history[i + 1].op)
           => /\ ~history[i].threw /\ ~history[i + 1].threw
              /\ history[i].ret = history[i + 1].ret

\* two calls of unmaskTag, the first of which could not restore the override
IdempotenceWitness ==
    /\ Len(history) >= 2
    /\ history[1].op = "unmaskTag" /\ history[2].op = "unmaskTag"
    /\ MaskWritten(history[1].log) /\ RestoreThrew(history[1].log)
    /\ history[1].pre[TAG].value = Str(S_Custom)
    /\ history[2].pre[TAG] = MaskDesc
    /\ history[1].ret = history[2].ret

\* the positions in log l of the events of primitive p
Positions(l, p) == {i \in DOMAIN l : l[i].prim = p}

\* C19: when the restore write throws, unmaskTag attempts a secondary
\* cleanup (removing the masking definition) before it returns the safe
\* fallback tag, and does not throw.
SecondaryCleanup ==
    \A h \in Calls :
        (h.op = "unmaskTag" /\ MaskWritten(h.log) /\ RestoreThrew(h.log))
           => /\ ~h.threw
              /\ \E i \in Positions(h.log, "delete") :
                    \E j \in Positions(h.log, "define") : j < i /\ ~h.log[j].ok
              /\ h.via = "safeTag"

\* C20: once the mask write has succeeded, exactly one restore write with the
\* captured descriptor is attempted before the call returns, after the native
\* read, whether that read succeeded or threw; when the read threw and the
\* restore succeeded the call returns safeTag(value) of the restored value.
RestoreUnconditional ==
    \A h \in Calls :
        (h.op = "unmaskTag" /\ MaskWritten(h.log))
           => /\ Len(Defines(h.log)) = 2
              /\ Defines(h.log)[2].desc = h.pre[TAG]
              /\ \E i \in Positions(h.log, "toString") :
                    \E j \in Positions(h.log, "define") :
                        i < j /\ h.log[j] = Defines(h.log)[2]
              /\ (ReadThrew(h.log) /\ ~RestoreThrew(h.log))
                    => /\ h.post = h.pre
                       /\ h.via = "safeTag"
                       /\ h.ret = SafeTag(value, h.pre, proto).v

\* a read that throws only under the mask, then a successful restore: the
\* answer is the visible tag of the restored value
RestoreUnconditionalWitness ==
    \E h \in Calls :
        /\ h.op = "unmaskTag" /\ MaskWritten(h.log)
        /\ value.fails = {"readMasked"}
        /\ ReadThrew(h.log) /\ ~RestoreThrew(h.log)
        /\ h.pre[TAG] = DataDesc(Str(S_Custom), TRUE, TRUE, TRUE)
        /\ h.ret = ObjectTag(S_Custom)

\* the completed calls of unmaskTag that wrote a mask, oldest first
MaskingCalls ==
    SelectSeq(history, LAMBDA h : h.op = "unmaskTag" /\ MaskWritten(h.log))

\* some call found the own override to be the configurable word w
SomeCallSaw(w) ==
    \E h \in Calls :
        /\ h.pre[TAG].type = "data"
        /\ h.pre[TAG].configurable
        /\ h.pre[TAG].value = Str(w)

\* C18: when calls of unmaskTag on a value with an own configurable override
\* W interleave at step granularity, the value can be left masked after all
\* calls have returned, and then the caller that restored last had taken the
\* masking definition as its snapshot (it read the masked state, not W).
RaceLeavesMask ==
    (InProgress = {} /\ SomeCallSaw(S_Custom))
       => \/ \E h \in Calls :
                own[TAG] = h.pre[TAG] /\ own[TAG].value = Str(S_Custom)
          \/ /\ own[TAG] = MaskDesc
             /\ Len(MaskingCalls) >= 2
             /\ LET last == MaskingCalls[Len(MaskingCalls)]
                IN  /\ Defines(last.log)[2].desc = MaskDesc
                    /\ Defines(last.log)[2].ok

\* both callers have returned from unmaskTag, the first saw W, the second
\* snapshotted the mask and restored it last: the override is the mask
RaceLeavesMaskWitness ==
    /\ InProgress = {}
    /\ Len(history) = 2
    /\ history[1].op = "unmaskTag" /\ history[2].op = "unmaskTag"
    /\ history[1].caller # history[2].caller
    /\ history[1].pre[TAG] = DataDesc(Str(S_Custom), TRUE, TRUE, TRUE)
    /\ Defines(history[1].log)[2].desc = history[1].pre[TAG]
    /\ Defines(history[2].log)[2].desc = MaskDesc
    /\ history[1].ret = ObjectTag(BuiltinTag(value.kind))
    /\ own[TAG] = MaskDesc

(***************************************************************************)
(* safe-tag/fast, part_004:13-18 and part_004:76-78                       *)
(***************************************************************************)
\* variant: the two sentinel answers of line 15 are exchanged
FastTagSentinelsSwapped(v, o, p) ==
    IF v.kind \in {"undefined", "null"}
    THEN IF v.kind = "undefined" THEN Normal(ObjectTag(S_Null))
         ELSE Normal(ObjectTag(S_Undefined))
    ELSE NativeToString(v, o, p)

\* part_004:13-18: `value == null` answers a sentinel, anything else is the
\* unguarded native call
FastTag(v, o, p) ==
    IF v.kind \in {"undefined", "null"}
    THEN IF v.kind = "undefined" THEN Normal(ObjectTag(S_Undefined))
         ELSE Normal(ObjectTag(S_Null))
    ELSE NativeToString(v, o, p)

\* part_004:76-78: the unguarded native call alone
FastTagUnsafe(v, o, p) == NativeToString(v, o, p)

\* part_004:13-18 as a call; line 17 is reached for non-nullish values only
FastTagStep(c) ==
    /\ pc[c] = "fastTag"
    /\ LET r == FastTag(value, own, proto)
           l == IF value.kind \in {"undefined", "null"} THEN log[c]
                ELSE Append(log[c], Event("toString", TAG, NoDesc, ~r.threw))
       IN  Finish(c, r, IF r.threw THEN "throw" ELSE "fastTag", l, own)
    /\ UNCHANGED <<tagCache, value, symToStringTag, own, proto, op, descriptor,
                   completion, pre>>

\* part_004:76-78 as a call
FastTagUnsafeStep(c) ==
    /\ pc[c] = "fastTagUnsafe"
    /\ LET r == FastTagUnsafe(value, own, proto)
           l == Append(log[c], Event("toString", TAG, NoDesc, ~r.threw))
       IN  Finish(c, r, IF r.threw THEN "throw" ELSE "fastTag", l, own)
    /\ UNCHANGED <<tagCache, value, symToStringTag, own, proto, op, descriptor,
                   completion, pre>>

\* one step of caller c in a program that uses safeTag and the fast variants
StepFast(c) ==
    \/ \E o \in {"safeTag", "fastTag", "fastTagUnsafe"} : Call(c, o)
    \/ SafeTagStep(c)
    \/ FastTagStep(c)
    \/ FastTagUnsafeStep(c)

NextFast == \E c \in Sequential : StepFast(c)

SpecFast == Init /\ [][NextFast]_vars

FastOps == {"fastTag", "fastTagUnsafe"}

\* C21: on an input on which the native primitive does not throw (null and
\* undefined included) fastTag returns the string safeTag returns; on an
\* input on which it throws, fastTag throws and safeTag returns
\* "[object Object]".
FastTagAgreesWithSafeTag ==
    \A h \in Calls : \A g \in Calls :
        (h.op \in FastOps /\ g.op = "safeTag")
           => /\ ~g.threw
              /\ IF Raw(h).threw
                 THEN h.threw /\ g.ret = ObjectTag(S_Object)
                 ELSE ~h.threw /\ h.ret = g.ret

\* fastTag threw on a non-configurable throwing getter and safeTag answered,
\* or both answered the null sentinel
FastTagAgreesWithSafeTagWitness ==
    \E h \in Calls : \E g \in Calls :
        /\ h.op = "fastTag" /\ g.op = "safeTag"
        /\ \/ /\ h.threw /\ ~IsProxy(value)
              /\ h.pre[TAG].type = "accessor" /\ ~h.pre[TAG].configurable
              /\ g.ret = ObjectTag(S_Object)
           \/ /\ value.kind = "null" /\ h.ret = ObjectTag(S_Null)
              /\ g.ret = h.ret

\* C26: during and after any call of unmaskTag the only property ever written
\* is the own property at the tag-override key: every defineProperty names
\* that key, and no step changes another own property, the prototype's
\* property or the value itself.
SinglePropertyFrame ==
    [][/\ \A k \in Keys \ {TAG} : own'[k] = own[k]
       /\ proto' = proto
       /\ value' = value
       /\ \A c \in Callers : \A i \in DOMAIN log'[c] :
             log'[c][i].prim = "define" => log'[c][i].key = TAG]_vars

\* a call that masked and restored on a value with another own property and
\* an inherited override
SinglePropertyFrameWitness ==
    \E h \in Calls :
        /\ h.op = "unmaskTag" /\ MaskWritten(h.log)
        /\ Len(Defines(h.log)) = 2
        /\ h.pre[OTHER_KEY] = OtherDesc /\ h.post[OTHER_KEY] = OtherDesc
        /\ proto # NoDesc

\* the engine primitives of log l follow the protocol of unmaskTag
InProtocolOrder(l) ==
    /\ Len(Lookups(l)) <= 1
    /\ Len(Defines(l)) <= 2
    /\ \A i \in Positions(l, "gopd") : \A j \in Positions(l, "define") : i < j
    /\ Defines(l) # <<>>
          => /\ Lookups(l) # <<>> /\ Lookups(l)[1].ok
             /\ Defines(l)[1].desc = MaskDesc
    /\ LET d == Positions(l, "define")
           under == {i \in Positions(l, "toString") :
                        /\ \E j \in d : j < i
                        /\ \/ Cardinality(d) < 2
                           \/ \E j \in d : i < j}
           early == {i \in Positions(l, "toString") :
                        d # {} /\ \A j \in d : i < j}
       IN  /\ Cardinality(under) <= 1
           /\ under # {} => MaskWritten(l)
           /\ early = {}

\* C27: inside one unmaskTag call the descriptor snapshot precedes the mask
\* write, the mask write precedes the native read, the native read precedes
\* the restore write, each of the four steps happens at most once, and the
\* call never returns while a mask it has written awaits its restore attempt.
ProtocolOrdering ==
    /\ \A c \in Callers : op[c] = "unmaskTag" => InProtocolOrder(log[c])
    /\ \A h \in Calls :
          h.op = "unmaskTag"
             => /\ InProtocolOrder(h.log)
                /\ Len(Defines(h.log)) # 1
                /\ MaskWritten(h.log)
                      => \E i \in Positions(h.log, "toString") :
                            \E j \in Positions(h.log, "define") :
                                i < j /\ h.log[j].desc = h.pre[TAG]

\* a full run of the four steps whose read under the mask threw: snapshot,
\* mask, read, restore, then the read of the fallback
ProtocolOrderingWitness ==
    \E h \in Calls :
        /\ h.op = "unmaskTag"
        /\ Len(h.log) > Len(Lookups(h.log)) + Len(Defines(h.log)) + 1
        /\ h.log[1].prim = "gopd" /\ h.log[2].prim = "define"
        /\ h.log[3].prim = "toString" /\ ~h.log[3].ok
        /\ h.log[4].prim = "define" /\ h.log[4].ok

\* C30: in unmaskTag the restoring defineProperty is attempted exactly when
\* the masking defineProperty was attempted, also when the mask write threw:
\* on that path the value receives one write attempt with its original
\* descriptor and no read in between, and a failure of the attempt is
\* swallowed.
RestoreAttemptedWithMask ==
    \A h \in Calls :
        h.op = "unmaskTag"
           => /\ Len(Defines(h.log)) \in {0, 2}
              /\ Defines(h.log) # <<>>
                    => /\ Defines(h.log)[1].desc = MaskDesc
                       /\ Defines(h.log)[Len(Defines(h.log))].desc = h.pre[TAG]
              /\ MaskThrew(h.log)
                    => /\ \A i \in Positions(h.log, "define") :
                             \A j \in Positions(h.log, "define") :
                                i < j => j = i + 1
                       /\ ~h.threw
                       /\ h.ret = SafeTag(value, h.pre, proto).v
                       /\ h.post = h.pre

\* the mask write threw and the restore attempt threw too: swallowed
RestoreAttemptedWithMaskWitness ==
    \E h \in Calls :
        /\ h.op = "unmaskTag" /\ MaskThrew(h.log) /\ RestoreThrew(h.log)
        /\ value.fails = {"mask", "restore"}
        /\ h.pre[TAG] = DataDesc(Str(S_Custom), TRUE, TRUE, TRUE)
        /\ ~h.threw /\ h.ret = ObjectTag(S_Custom)

(***************************************************************************)
(* src/src/index.ts: the unmasking safeTag and getRawTag                   *)
(***************************************************************************)
\* a throw completion carrying the error e
Thrown(e) == [threw |-> TRUE, v |-> e]

\* the errors that can leave getRawTag, named after the step that raised them
ErrLookup == <<"lookup">>
ErrMask == <<"mask">>
ErrNative == <<"native">>
ErrRestore == <<"restore">>
ErrDefensive == <<"no error object">>

\* index.ts:123-139: one error that carries both errors
Combined(nativeError, restoreError) == nativeError \o restoreError

\* getRawTag hands completion r to its caller: to the program when it was
\* called directly, to safeTag's try/catch (index.ts:35-39) otherwise
RawExit(c, direct, r, l, o) ==
    IF op[c] = direct \/ ~r.threw
    THEN Finish(c, r, "getRawTag", l, o)
    ELSE /\ pc' = [pc EXCEPT ![c] = "safeNativeString"]
         /\ log' = [log EXCEPT ![c] = l]
         /\ UNCHANGED history

\* variant: safeTag never delegates to getRawTag
IndexSafeTagNoDelegate(c) ==
    /\ pc[c] = "indexSafeTag"
    /\ IF value.kind \in {"undefined", "null"}
       THEN Finish(c, Normal(IF value.kind = "undefined"
                             THEN ObjectTag(S_Undefined)
                             ELSE ObjectTag(S_Null)),
                   "sentinel", log[c], own)
       ELSE /\ pc' = [pc EXCEPT ![c] = "safeNativeString"]
            /\ UNCHANGED <<log, history>>
    /\ UNCHANGED <<tagCache, value, symToStringTag, own, proto, op, descriptor,
                   completion, pre>>

\* index.ts:21-40 up to the call of getRawTag at line 36
IndexSafeTag(c) ==
    /\ pc[c] = "indexSafeTag"
    /\ IF value.kind \in {"undefined", "null"}
       THEN Finish(c, Normal(IF value.kind = "undefined"
                             THEN ObjectTag(S_Undefined)
                             ELSE ObjectTag(S_Null)),
                   "sentinel", log[c], own)
       ELSE /\ pc' = [pc EXCEPT ![c] =
                        IF ~symToStringTag
                              \/ TypeOf(value) \notin {"object", "function"}
                        THEN "safeNativeString" ELSE "indexGetRawTag"]
            /\ UNCHANGED <<log, history>>
    /\ UNCHANGED <<tagCache, value, symToStringTag, own, proto, op, descriptor,
                   completion, pre>>

\* index.ts:160-167
SafeNativeString(c) ==
    /\ pc[c] = "safeNativeString"
    /\ LET r == NativeToString(value, own, proto)
           l == Append(log[c], Event("toString", TAG, NoDesc, ~r.threw))
       IN  Finish(c, IF r.threw THEN Normal(ObjectTag(S_Object)) ELSE r,
                  "safeNativeString", l, own)
    /\ UNCHANGED <<tagCache, value, symToStringTag, own, proto, op, descriptor,
                   completion, pre>>

\* index.ts:61: `!descriptor || !descriptor.configurable`
CannotUnmask(d) == d = NoDesc \/ ~d.configurable

\* the unguarded native call of index.ts:48 and 62 as getRawTag's completion
NativeReturn(c, direct, l) ==
    LET r == NativeToString(value, own, proto)
    IN  RawExit(c, direct, IF r.threw THEN Thrown(ErrNative) ELSE r,
                Append(l, Event("toString", TAG, NoDesc, ~r.threw)), own)

\* index.ts:47-63: the guard, the descriptor lookup and its checks
GetRawTagStart(c) ==
    /\ pc[c] = "indexGetRawTag"
    /\ IF ~symToStringTag
       THEN /\ NativeReturn(c, "indexGetRawTag", log[c])
            /\ UNCHANGED descriptor
       ELSE LET r == GetOwnDescriptor(value, own)
                l == Append(log[c], Event("gopd", TAG, NoDesc, ~r.threw))
            IN  IF r.threw
                THEN /\ RawExit(c, "indexGetRawTag", Thrown(ErrLookup), l, own)
                     /\ UNCHANGED descriptor
                ELSE IF CannotUnmask(r.v)
                THEN /\ NativeReturn(c, "indexGetRawTag", l)
                     /\ descriptor' = [descriptor EXCEPT ![c] = r.v]
                ELSE /\ descriptor' = [descriptor EXCEPT ![c] = r.v]
                     /\ pc' = [pc EXCEPT ![c] = "indexMask"]
                     /\ log' = [log EXCEPT ![c] = l]
                     /\ UNCHANGED history
    /\ UNCHANGED <<tagCache, value, symToStringTag, own, proto, op, completion, pre>>

\* variant: the catch of the mask write answers with the native string
IndexMaskCatchFallsBack(c) ==
    /\ pc[c] = "indexMask"
    /\ LET r == DefineProperty(value, own, TAG, MaskDesc)
           l == Append(log[c], Event("define", TAG, MaskDesc, ~r.threw))
       IN  IF r.threw
           THEN /\ NativeReturn(c, "indexGetRawTag", l)
                /\ UNCHANGED own
           ELSE /\ own' = r.v
                /\ pc' = [pc EXCEPT ![c] = "indexRead"]
                /\ log' = [log EXCEPT ![c] = l]
                /\ UNCHANGED history
    /\ UNCHANGED <<tagCache, value, symToStringTag, proto, op, descriptor, completion,
                   pre>>

\* index.ts:66-75: the mask write, its error rethrown
IndexMask(c) ==
    /\ pc[c] = "indexMask"
    /\ LET r == DefineProperty(value, own, TAG, MaskDesc)
           l == Append(log[c], Event("define", TAG, MaskDesc, ~r.threw))
       IN  IF r.threw
           THEN /\ RawExit(c, "indexGetRawTag", Thrown(ErrMask), l, own)
                /\ UNCHANGED own
           ELSE /\ own' = r.v
                /\ pc' = [pc EXCEPT ![c] = "indexRead"]
                /\ log' = [log EXCEPT ![c] = l]
                /\ UNCHANGED history
    /\ UNCHANGED <<tagCache, value, symToStringTag, proto, op, descriptor, completion,
                   pre>>

\* `undefined` in a variable that holds an error
NoError == <<>>

\* index.ts:112-153: the decision on the locals of lines 78-81
RawOutcome(tagRead, tag, nativeError, restoreError) ==
    IF tagRead THEN Normal(tag)
    ELSE IF restoreError # NoError
    THEN IF nativeError # NoError
         THEN Thrown(Combined(nativeError, restoreError))
         ELSE Thrown(restoreError)
    ELSE IF nativeError # NoError THEN Thrown(nativeError)
    ELSE Thrown(ErrDefensive)

\* index.ts:83-153: the native read under the mask; the finally block of
\* lines 91-107 holds no defineProperty and no assignment to restoreError,
\* it only reports restoreError on the console
IndexRead(c) ==
    /\ pc[c] = "indexRead"
    /\ LET r == NativeToString(value, own, proto)
           l == Append(log[c], Event("toString", TAG, NoDesc, ~r.threw))
           nativeError == IF r.threw THEN ErrNative ELSE NoError
           restoreError == NoError
       IN  RawExit(c, "indexGetRawTag",
                   RawOutcome(~r.threw, r.v, nativeError, restoreError),
                   l, own)
    /\ UNCHANGED <<tagCache, value, symToStringTag, own, proto, op, descriptor,
                   completion, pre>>

\* one step of caller c in a program that uses src/src/index.ts
StepIndex(c) ==
    \/ \E o \in {"indexSafeTag", "indexGetRawTag"} : Call(c, o)
    \/ IndexSafeTag(c)
    \/ GetRawTagStart(c)
    \/ IndexMask(c)
    \/ IndexRead(c)
    \/ SafeNativeString(c)

NextIndex == \E c \in Sequential : StepIndex(c)

SpecIndex == Init /\ [][NextIndex]_vars

\* C22: after getRawTag of src/src/index.ts returns normally for an object
\* with an own configurable override W, the returned tag is the intrinsic
\* tag and the override reads W again, with its original descriptor.
GetRawTagRestores ==
    \A h \in Calls :
        (h.op = "indexGetRawTag" /\ ~h.threw /\ HasOwnWord(h, S_Custom))
           => /\ h.ret = ObjectTag(BuiltinTag(value.kind))
              /\ h.post[TAG] = h.pre[TAG]

\* C23: getRawTag throws, rather than returning a fallback string, when the
\* own-descriptor lookup throws, when the override is a non-configurable
\* getter that throws during the native read (that read's error), and when
\* the mask write throws; in each case it performed no successful write.
GetRawTagPropagates ==
    \A h \in Calls :
        h.op = "indexGetRawTag"
           => /\ LookupThrew(h.log)
                    => /\ h.threw /\ h.ret = ErrLookup
                       /\ Defines(h.log) = <<>>
              /\ (HasLockedThrowingGetter(h) /\ ~LookupThrew(h.log))
                    => /\ h.threw /\ h.ret = ErrNative
                       /\ Defines(h.log) = <<>>
              /\ MaskThrew(h.log)
                    => /\ h.threw /\ h.ret = ErrMask
                       /\ Len(Defines(h.log)) = 1
              /\ (LookupThrew(h.log) \/ HasLockedThrowingGetter(h)
                    \/ MaskThrew(h.log))
                    => h.post = h.pre

\* the three cases differ in the value, so one run shows one of them: the
\* mask write refused by a proxy, or the locked throwing getter on an
\* ordinary object
GetRawTagPropagatesWitness ==
    \E h \in Calls :
        /\ h.op = "indexGetRawTag" /\ h.threw
        /\ \/ /\ MaskThrew(h.log) /\ value.fails = {"mask"}
              /\ h.pre[TAG] = DataDesc(Str(S_Custom), TRUE, TRUE, TRUE)
           \/ /\ HasLockedThrowingGetter(h) /\ ~IsProxy(value)
              /\ h.ret = ErrNative
           \/ /\ Revoked /\ LookupThrew(h.log)

\* C25: the safeTag of src/src/index.ts returns, for an object-like value
\* with an own configurable custom override, the intrinsic tag of its kind
\* instead of the custom tag, and for a tag inherited from the prototype the
\* inherited custom tag.
UnmaskingSafeTag ==
    \A h \in Calls :
        h.op = "indexSafeTag"
           => /\ HasOwnWord(h, S_Custom)
                    => h.ret = ObjectTag(BuiltinTag(value.kind))
              /\ InheritsWord(h, S_Tagged) => h.ret = ObjectTag(S_Tagged)
              /\ ~h.threw

\* an array and a function with an own custom tag answered intrinsically
UnmaskingSafeTagWitness ==
    \E h \in Calls :
        /\ h.op = "indexSafeTag" /\ HasOwnWord(h, S_Custom)
        /\ value.kind \in {"array", "function"}
        /\ h.via = "getRawTag"
        /\ h.ret \in {ObjectTag(S_Array), ObjectTag(S_Function)}

\* C29: when both the native read under the mask and the restoration fail,
\* getRawTag of src/src/index.ts throws one error carrying both errors; when
\* only the restoration fails it throws the restore error; when only the
\* native read fails it throws the native error after restoration.
CombinedErrorReporting ==
    \A h \in Calls :
        (h.op = "indexGetRawTag" /\ MaskWritten(h.log))
           => /\ Len(Defines(h.log)) = 2
              /\ Defines(h.log)[2].desc = h.pre[TAG]
              /\ (ReadThrew(h.log) /\ RestoreThrew(h.log))
                    => h.threw /\ h.ret = Combined(ErrNative, ErrRestore)
              /\ (~ReadThrew(h.log) /\ RestoreThrew(h.log))
                    => h.threw /\ h.ret = ErrRestore
              /\ (ReadThrew(h.log) /\ ~RestoreThrew(h.log))
                    => h.threw /\ h.ret = ErrNative /\ h.post = h.pre

(***************************************************************************)
(* part_008:90-208: safeTag with the hasOwn fast path, getRawTag with the  *)
(* explicit restore                                                        *)
(***************************************************************************)
\* a proxy of this program may also carry a deleteProperty trap that throws
ValuesWithDelete ==
    Values
    \cup {[kind |-> v.kind, fails |-> v.fails \cup {"delete"}] :
            v \in {w \in Values : w.kind \in ObjectKinds}}

InitHasOwn == InitOver(ValuesWithDelete)

\* Object.prototype.hasOwnProperty.call(v, Symbol.toStringTag): on a proxy it
\* goes through the getOwnPropertyDescriptor trap
HasOwn(v, o) ==
    IF v.kind \in {"undefined", "null"} \/ "gopd" \in v.fails THEN Abrupt
    ELSE Normal(o[TAG] # NoDesc)

\* `delete v[key]` in strict code: the heap afterwards, or a throw
DeleteProperty(v, o, key) ==
    IF "delete" \in v.fails THEN Abrupt
    ELSE IF o[key] = NoDesc THEN Normal(o)
    ELSE IF o[key].configurable THEN Normal([o EXCEPT ![key] = NoDesc])
    ELSE Abrupt

\* part_008:104-123 up to the call of getRawTag; the condition of lines
\* 113-117 is evaluated outside any try block
HasOwnSafeTag(c) ==
    /\ pc[c] = "hasOwnSafeTag"
    /\ IF value.kind \in {"undefined", "null"}
       THEN Finish(c, Normal(IF value.kind = "undefined"
                             THEN ObjectTag(S_Undefined)
                             ELSE ObjectTag(S_Null)),
                   "sentinel", log[c], own)
       ELSE IF ~symToStringTag \/ TypeOf(value) \notin {"object", "function"}
       THEN /\ pc' = [pc EXCEPT ![c] = "safeNativeString"]
            /\ UNCHANGED <<log, history>>
       ELSE LET r == HasOwn(value, own)
                l == Append(log[c], Event("hasOwn", TAG, NoDesc, ~r.threw))
            IN  IF r.threw
                THEN Finish(c, Thrown(ErrLookup), "throw", l, own)
                ELSE /\ pc' = [pc EXCEPT ![c] =
                                 IF r.v THEN "explicitGetRawTag"
                                 ELSE "safeNativeString"]
                     /\ log' = [log EXCEPT ![c] = l]
                     /\ UNCHANGED history
    /\ UNCHANGED <<tagCache, value, symToStringTag, own, proto, op, descriptor,
                   completion, pre>>

\* part_008:138-154: the guard, the descriptor lookup and its check
ExplicitStart(c) ==
    /\ pc[c] = "explicitGetRawTag"
    /\ IF ~symToStringTag
       THEN /\ NativeReturn(c, "explicitGetRawTag", log[c])
            /\ UNCHANGED descriptor
       ELSE LET r == GetOwnDescriptor(value, own)
                l == Append(log[c], Event("gopd", TAG, NoDesc, ~r.threw))
            IN  IF r.threw
                THEN /\ RawExit(c, "explicitGetRawTag", Thrown(ErrLookup),
                                l, own)
                     /\ UNCHANGED descriptor
                ELSE IF r.v # NoDesc /\ ~r.v.configurable
                THEN /\ NativeReturn(c, "explicitGetRawTag", l)
                     /\ descriptor' = [descriptor EXCEPT ![c] = r.v]
                ELSE /\ descriptor' = [descriptor EXCEPT ![c] = r.v]
                     /\ pc' = [pc EXCEPT ![c] = "explicitMask"]
                     /\ log' = [log EXCEPT ![c] = l]
                     /\ UNCHANGED history
    /\ UNCHANGED <<tagCache, value, symToStringTag, own, proto, op, completion, pre>>

\* part_008:157-166: the mask write, its error rethrown
ExplicitMask(c) ==
    /\ pc[c] = "explicitMask"
    /\ LET r == DefineProperty(value, own, TAG, MaskDesc)
           l == Append(log[c], Event("define", TAG, MaskDesc, ~r.threw))
       IN  IF r.threw
           THEN /\ RawExit(c, "explicitGetRawTag", Thrown(ErrMask), l, own)
                /\ UNCHANGED own
           ELSE /\ own' = r.v
                /\ pc' = [pc EXCEPT ![c] = "explicitRead"]
                /\ log' = [log EXCEPT ![c] = l]
                /\ UNCHANGED history
    /\ UNCHANGED <<tagCache, value, symToStringTag, proto, op, descriptor, completion,
                   pre>>

\* part_008:170 and 194-196: the native read under the mask; its error
\* leaves getRawTag at once, without a restore
ExplicitRead(c) ==
    /\ pc[c] = "explicitRead"
    /\ LET r == NativeToString(value, own, proto)
           l == Append(log[c], Event("toString", TAG, NoDesc, ~r.threw))
       IN  IF r.threw
           THEN /\ RawExit(c, "explicitGetRawTag", Thrown(ErrNative), l, own)
                /\ UNCHANGED completion
           ELSE /\ completion' = [completion EXCEPT ![c] =
                                    [type |-> "return", v |-> r.v]]
                /\ pc' = [pc EXCEPT ![c] = "explicitRestore"]
                /\ log' = [log EXCEPT ![c] = l]
                /\ UNCHANGED history
    /\ UNCHANGED <<tagCache, value, symToStringTag, own, proto, op, descriptor, pre>>

\* part_008:173-181 and 193: the restore (the snapshot written back, or the
\* mask deleted when there was no own descriptor), then `return tag`
ExplicitRestore(c) ==
    /\ pc[c] = "explicitRestore"
    /\ LET d == descriptor[c]
           r == IF d # NoDesc THEN DefineProperty(value, own, TAG, d)
                ELSE DeleteProperty(value, own, TAG)
           l == Append(log[c],
                       IF d # NoDesc THEN Event("define", TAG, d, ~r.threw)
                       ELSE Event("delete", TAG, NoDesc, ~r.threw))
       IN  IF r.threw
           THEN /\ pc' = [pc EXCEPT ![c] = "explicitCleanup"]
                /\ log' = [log EXCEPT ![c] = l]
                /\ UNCHANGED <<own, history>>
           ELSE /\ own' = r.v
                /\ RawExit(c, "explicitGetRawTag", Normal(completion[c].v),
                           l, r.v)
    /\ UNCHANGED <<tagCache, value, symToStringTag, proto, op, descriptor, completion,
                   pre>>

\* variant: after the cleanup the tag that was read is returned
ExplicitCleanupReturnsTag(c) ==
    /\ pc[c] = "explicitCleanup"
    /\ LET r == DeleteProperty(value, own, TAG)
           l == Append(log[c], Event("delete", TAG, NoDesc, ~r.threw))
           o == IF r.threw THEN own ELSE r.v
       IN  /\ own' = o
           /\ RawExit(c, "explicitGetRawTag", Normal(completion[c].v), l, o)
    /\ UNCHANGED <<tagCache, value, symToStringTag, proto, op, descriptor, completion,
                   pre>>

\* part_008:181-191: the best-effort delete of the mask, its error
\* swallowed, then `throw restoreError`
ExplicitCleanup(c) ==
    /\ pc[c] = "explicitCleanup"
    /\ LET r == DeleteProperty(value, own, TAG)
           l == Append(log[c], Event("delete", TAG, NoDesc, ~r.threw))
           o == IF r.threw THEN own ELSE r.v
       IN  /\ own' = o
           /\ RawExit(c, "explicitGetRawTag", Thrown(ErrRestore), l, o)
    /\ UNCHANGED <<tagCache, value, symToStringTag, proto, op, descriptor, completion,
                   pre>>

\* one step of caller c in a program that uses part_008:90-208
StepHasOwn(c) ==
    \/ \E o \in {"hasOwnSafeTag", "explicitGetRawTag"} : Call(c, o)
    \/ HasOwnSafeTag(c)
    \/ ExplicitStart(c)
    \/ ExplicitMask(c)
    \/ ExplicitRead(c)
    \/ ExplicitRestore(c)
    \/ ExplicitCleanup(c)
    \/ SafeNativeString(c)

NextHasOwn == \E c \in Sequential : StepHasOwn(c)

SpecHasOwn == InitHasOwn /\ [][NextHasOwn]_vars

\* C24: for every input, a revoked proxy and a proxy whose
\* getOwnPropertyDescriptor trap throws included, no exception escapes the
\* safeTag that pre-checks with hasOwnProperty, and it returns a string of
\* the form [object X].
HasOwnTotality ==
    \A h \in Calls :
        h.op = "hasOwnSafeTag"
           => /\ ~h.threw
              /\ \E x \in EngineNames \cup OverrideStrings(h) :
                    h.ret = ObjectTag(x)

\* the read under the mask succeeded and the restoring defineProperty threw
RestoreAloneThrew(l) ==
    /\ MaskWritten(l) /\ RestoreThrew(l)
    /\ \E i \in Positions(l, "toString") : \E j \in Positions(l, "define") :
          i < j /\ l[i].ok

\* a delete of the tag key was attempted after the last defineProperty
CleanupAttempted(l) ==
    \E i \in Positions(l, "delete") : \A j \in Positions(l, "define") : j < i

\* C28: if the mask write and the native read succeeded but the restoring
\* defineProperty throws, getRawTag (part_008) attempts to delete the masking
\* property, then throws the restore error and never returns the tag it
\* read; the enclosing safeTag converts this into the safe native string.
RestoreFailureThrows ==
    \A h \in Calls :
        RestoreAloneThrew(h.log)
           => /\ CleanupAttempted(h.log)
              /\ h.op = "explicitGetRawTag"
                    => h.threw /\ h.ret = ErrRestore /\ h.via = "getRawTag"
              /\ h.op = "hasOwnSafeTag"
                    => /\ ~h.threw
                       /\ h.via = "safeNativeString"
                       /\ h.ret = SafeTag(value, h.post, proto).v
                       /\ h.log[Len(h.log)].prim = "toString"

\* a proxy that refuses the restore: the cleanup removed the mask, safeTag
\* answered with the native string of what is left
RestoreFailureThrowsWitness ==
    \E h \in Calls :
        /\ h.op = "hasOwnSafeTag"
        /\ value.fails = {"restore"}
        /\ RestoreAloneThrew(h.log) /\ CleanupAttempted(h.log)
        /\ h.pre[TAG] = DataDesc(Str(S_Custom), TRUE, TRUE, TRUE)
        /\ h.post[TAG] = NoDesc
        /\ proto = NoDesc
        /\ h.ret = ObjectTag(BuiltinTag(value.kind))

\* the calls that finished after call number i of the history
LaterCalls(i) == {history[j] : j \in {k \in DOMAIN history : k > i}}

\* call number i is an unmaskTag call on an own override holding W whose
\* mask write succeeded and whose restore write failed
FailedRestore(i) ==
    /\ history[i].op = "unmaskTag"
    /\ MaskWritten(history[i].log) /\ RestoreThrew(history[i].log)
    /\ GetValue(history[i].pre[TAG]) = Normal(Str(S_Custom))

\* C31: if the mask write succeeded and the restore write failed, then when
\* unmaskTag returns the own override is exactly the mask definition, and
\* every later safeTag(value) and unmaskTag(value) returns the intrinsic tag
\* rather than the original custom tag W.
StateAfterFailedRestore ==
    \A i \in DOMAIN history :
        FailedRestore(i)
           => /\ history[i].post[TAG] = MaskDesc
              /\ \A h \in LaterCalls(i) :
                    /\ h.pre[TAG] = MaskDesc
                    /\ h.ret = ObjectTag(BuiltinTag(value.kind))

\* C31, amended: as above, but a later call answers the intrinsic tag only
\* when the native read on the value does not throw; when it throws the
\* answer is "[object Object]"; it is never the custom tag W, and the value
\* stays masked.
StateAfterFailedRestoreUnlessReadThrows ==
    \A i \in DOMAIN history :
        FailedRestore(i)
           => /\ history[i].post[TAG] = MaskDesc
              /\ \A h \in LaterCalls(i) :
                    /\ h.pre[TAG] = MaskDesc /\ h.post[TAG] = MaskDesc
                    /\ ~h.threw
                    /\ h.ret # ObjectTag(S_Custom)
                    /\ h.ret = IF Raw(h).threw THEN ObjectTag(S_Object)
                               ELSE ObjectTag(BuiltinTag(value.kind))

\* an array behind a proxy that refuses the restore only: left masked, the
\* later call answers "[object Array]"
StateAfterFailedRestoreWitness ==
    \E i \in DOMAIN history :
        /\ FailedRestore(i)
        /\ value.kind = "array" /\ value.fails = {"restore"}
        /\ history[i].pre[TAG] = DataDesc(Str(S_Custom), TRUE, TRUE, TRUE)
        /\ \E h \in LaterCalls(i) :
              h.op = "unmaskTag" /\ h.ret = ObjectTag(S_Array)

\* the own override the call found is a configurable accessor
HasConfigurableAccessor(h) ==
    /\ value.kind \in ObjectKinds
    /\ h.pre[TAG].type = "accessor"
    /\ h.pre[TAG].configurable

\* the only native read of log l lies between a successful mask write and
\* the restore write: it saw the mask, a data property, and ran no getter
ReadOnlyUnderMask(l) ==
    /\ Len(Reads(l)) = 1
    /\ MaskWritten(l)
    /\ \A i \in Positions(l, "toString") :
          /\ \E j \in Positions(l, "define") : j < i
          /\ \E j \in Positions(l, "define") : i < j

\* C32: for a value whose own override is a configurable accessor, unmaskTag
\* never invokes the getter on its success path: it returns the intrinsic tag
\* even when the getter would throw, and restores the accessor descriptor;
\* safeTag on the same value invokes the getter and returns
\* "[object Object]" when it throws.
AccessorNeverInvoked ==
    \A h \in Calls :
        HasConfigurableAccessor(h)
           => /\ (h.op = "unmaskTag" /\ NoStepFailed(h.log))
                    => /\ h.ret = ObjectTag(BuiltinTag(value.kind))
                       /\ h.via = "masked"
                       /\ ReadOnlyUnderMask(h.log)
                       /\ h.post = h.pre
              /\ (h.op = "safeTag" /\ "readPlain" \notin value.fails)
                    => h.ret = IF h.pre[TAG].get = Throws
                               THEN ObjectTag(S_Object)
                               ELSE ObjectTag(h.pre[TAG].get.v.s)

\* an array with a configurable throwing getter: safeTag answers
\* "[object Object]", unmaskTag "[object Array]", the accessor is back
AccessorNeverInvokedWitness ==
    \E g, h \in Calls :
        /\ g.op = "safeTag" /\ h.op = "unmaskTag"
        /\ value.kind = "array" /\ ~IsProxy(value)
        /\ HasConfigurableAccessor(h)
        /\ h.pre[TAG].get = Throws /\ h.pre[TAG].enumerable
        /\ g.ret = ObjectTag(S_Object)
        /\ h.ret = ObjectTag(S_Array)
        /\ h.post[TAG] = h.pre[TAG] /\ g.pre = h.post

\* what safeTag(value) answers on the heap h started from
SafeTagOf(h) == SafeTag(value, h.pre, proto).v

\* C33: unmaskTag returns a string different from safeTag(value) only if the
\* value had an own configurable override and the mask write succeeded; on
\* every other path (null, undefined, primitive, no tag-override key, no own
\* descriptor, non-configurable descriptor, lookup throws, mask write throws)
\* its result equals safeTag(value).
DiffersOnlyAfterMask ==
    \A h \in Calls :
        h.op = "unmaskTag"
           => /\ h.ret # SafeTagOf(h)
                    => /\ value.kind \in ObjectKinds /\ symToStringTag
                       /\ h.pre[TAG] # NoDesc /\ h.pre[TAG].configurable
                       /\ MaskWritten(h.log)
              /\ ( \/ TypeOf(value) \notin {"object", "function"}
                   \/ value.kind = "null"
                   \/ ~symToStringTag
                   \/ h.pre[TAG] = NoDesc
                   \/ ~h.pre[TAG].configurable
                   \/ LookupThrew(h.log)
                   \/ MaskThrew(h.log) )
                    => /\ ~h.threw
                       /\ h.ret = SafeTagOf(h)
                       /\ h.via = "safeTag"

\* a function with an own custom tag: unmaskTag answers "[object Function]"
\* where safeTag answers the custom tag
DiffersOnlyAfterMaskWitness ==
    \E g, h \in Calls :
        /\ g.op = "safeTag" /\ h.op = "unmaskTag"
        /\ value.kind = "function"
        /\ MaskWritten(h.log)
        /\ g.ret = ObjectTag(S_Custom) /\ SafeTagOf(h) = g.ret
        /\ h.ret = ObjectTag(S_Function)

(***************************************************************************)
(* cachedTag, part_004:28-49                                               *)
(***************************************************************************)
\* variant: the cache is never consulted nor filled
CachedTagNoCache(c) ==
    /\ pc[c] = "cachedTag"
    /\ IF value.kind \in {"undefined", "null"}
       THEN Finish(c, Normal(IF value.kind = "undefined"
                             THEN ObjectTag(S_Undefined)
                             ELSE ObjectTag(S_Null)),
                   "sentinel", log[c], own)
       ELSE LET r == NativeToString(value, own, proto)
                l == Append(log[c], Event("toString", TAG, NoDesc, ~r.threw))
            IN  Finish(c, r, IF r.threw THEN "throw" ELSE "native", l, own)
    /\ UNCHANGED <<tagCache, value, symToStringTag, own, proto, op,
                   descriptor, completion, pre>>

\* part_004:34-49
CachedTag(c) ==
    /\ pc[c] = "cachedTag"
    /\ IF value.kind \in {"undefined", "null"}
       THEN /\ Finish(c, Normal(IF value.kind = "undefined"
                                THEN ObjectTag(S_Undefined)
                                ELSE ObjectTag(S_Null)),
                      "sentinel", log[c], own)
            /\ UNCHANGED tagCache
       ELSE IF TypeOf(value) \notin {"object", "function"}
       THEN LET r == NativeToString(value, own, proto)
                l == Append(log[c], Event("toString", TAG, NoDesc, ~r.threw))
            IN  /\ Finish(c, r, IF r.threw THEN "throw" ELSE "native", l, own)
                /\ UNCHANGED tagCache
       ELSE IF tagCache # NoEntry
       THEN /\ Finish(c, Normal(tagCache), "cache", log[c], own)
            /\ UNCHANGED tagCache
       ELSE LET r == NativeToString(value, own, proto)
                l == Append(log[c], Event("toString", TAG, NoDesc, ~r.threw))
            IN  /\ Finish(c, r, IF r.threw THEN "throw" ELSE "native", l, own)
                /\ tagCache' = IF r.threw THEN tagCache ELSE r.v
    /\ UNCHANGED <<value, symToStringTag, own, proto, op, descriptor,
                   completion, pre>>

\* the overrides a program gives a value between two calls: removed, a
\* plain assignment, a throwing getter
CachedOverrides ==
    {NoDesc,
     DataDesc(Str(S_Custom), TRUE, TRUE, TRUE),
     DataDesc(Str(S_Spaced), TRUE, TRUE, TRUE),
     AccessorDesc(Throws, FALSE, FALSE, TRUE)}

\* between calls the program adds, changes or removes the own override
SetOverride(d) ==
    /\ InProgress = {}
    /\ symToStringTag
    /\ value.kind \in ObjectKinds
    /\ IF own[TAG] = NoDesc THEN TRUE ELSE own[TAG].configurable
    /\ d # own[TAG]
    /\ own' = [own EXCEPT ![TAG] = d]
    /\ UNCHANGED <<tagCache, value, symToStringTag, proto, pc, op,
                   descriptor, completion, pre, log, history>>

\* between calls the program revokes the proxy the value is
Revoke ==
    /\ InProgress = {}
    /\ value.kind \in ObjectKinds
    /\ value.fails # Steps
    /\ value' = [value EXCEPT !.fails = Steps]
    /\ UNCHANGED <<tagCache, symToStringTag, own, proto, pc, op,
                   descriptor, completion, pre, log, history>>

\* the values of this program: ordinary ones, proxies whose get trap
\* throws, revoked proxies
CachedValues ==
    {v \in Values :
        v.fails \in {{}, {"readPlain"}, {"readPlain", "readMasked"}, Steps}}

InitCached == InitOver(CachedValues)

NextCached ==
    \/ \E c \in Sequential : Call(c, "cachedTag")
    \/ \E c \in Sequential : CachedTag(c)
    \/ \E d \in CachedOverrides : SetOverride(d)
    \/ Revoke

SpecCached == InitCached /\ [][NextCached]_vars

\* C34: for an object or function v, once cachedTag(v) has returned t, every
\* later cachedTag(v) returns t without invoking the native primitive,
\* whatever happened to v in between; a call whose native read throws stores
\* nothing and propagates the error; null, undefined and primitives are
\* never cached.
CachedTagMemoizes ==
    /\ \A i \in DOMAIN history : \A j \in DOMAIN history :
          (i < j /\ value.kind \in ObjectKinds /\ ~history[i].threw)
             => /\ ~history[j].threw
                /\ history[j].ret = history[i].ret
                /\ history[j].log = <<>>
    /\ \A h \in Calls :
          /\ h.threw => (Len(h.log) = 1 /\ ~h.log[1].ok)
          /\ h.via = "cache" <=> (value.kind \in ObjectKinds /\ h.log = <<>>)
    /\ IF \E h \in Calls : value.kind \in ObjectKinds /\ ~h.threw
       THEN \A h \in Calls : ~h.threw => h.ret = tagCache
       ELSE tagCache = NoEntry

\* the first call read "[object Custom]"; then the override was removed and
\* the proxy revoked; the second call still answers "[object Custom]"
CachedTagMemoizesWitness ==
    /\ Len(history) > 1
    /\ Revoked
    /\ history[1].pre[TAG] = DataDesc(Str(S_Custom), TRUE, TRUE, TRUE)
    /\ history[1].ret = ObjectTag(S_Custom)
    /\ \E j \in DOMAIN history :
          /\ j > 1
          /\ history[j].pre[TAG] = NoDesc
          /\ history[j].via = "cache"
          /\ history[j].ret = ObjectTag(S_Custom)

====
